---- MODULE Spec2Model ----
(***************************************************************************)
(* A model of the Sequence class of SequencerGUI (sequence.cpp): an        *)
(* ordered list of SequencePoints clamped into [m_min, m_max], a cursor    *)
(* (m_curPoint), a modified flag and JSON persistence.                     *)
(*                                                                         *)
(* Numbers.  Coordinates are doubles in the code; the model carries each   *)
(* one exactly, as the fraction n / 2^e (see Double).  The only arithmetic *)
(* the code does on them is the midpoint (max + min) / 2.0 of              *)
(* defaultSequencePoint and the comparisons of std::min and std::max;      *)
(* both are exact on these fractions, as they are on doubles of this size. *)
(* duration and timeToTarget are C++ ints: their division by 2 truncates   *)
(* toward zero.  Every int the model builds stays far inside the range of  *)
(* int; max.duration + min.duration beyond that range is a signed overflow *)
(* in the code, undefined behaviour, which no state of the model reaches.  *)
(*                                                                         *)
(* Indices.  The code's lists are 0-based, TLA+ sequences 1-based: the     *)
(* element the code calls m_sequence[pos] is m_sequence[pos + 1] here.     *)
(* m_curPoint keeps the code's 0-based value, -1 meaning no current point. *)
(***************************************************************************)
EXTENDS Integers, Sequences, FiniteSets, TLC

\* Longest point list the model builds (the insert operations stop there).
MaxLen == 3

\* Longest JSON array handed to load.
MaxDocLen == 4

VARIABLES
    m_pointDim,     \* Sequence::m_pointDim
    m_min,          \* Sequence::m_min
    m_max,          \* Sequence::m_max
    m_sequence,     \* Sequence::m_sequence
    m_curPoint,     \* Sequence::m_curPoint
    m_isModified,   \* Sequence::m_isModified
    lastCall,       \* the last call made: [op, arg, io], io the file system's outcome
    signals,        \* the signals that call emitted, in order
    result,         \* what that call returned: [ok, doc]
    document        \* the JSON document handed to load, until the next call

object == <<m_pointDim, m_min, m_max, m_sequence, m_curPoint, m_isModified>>
vars == <<m_pointDim, m_min, m_max, m_sequence, m_curPoint, m_isModified,
          lastCall, signals, result, document>>

----------------------------------------------------------------------------
(* Doubles *)

\* The double n / 2^e, in lowest terms: e >= 0, and n is odd unless e = 0.
\* Two doubles are equal exactly when these records are.
RECURSIVE Double(_, _)
Double(n, e) ==
    IF e > 0 /\ n % 2 = 0 THEN Double(n \div 2, e - 1) ELSE [n |-> n, e |-> e]

\* The double of an integer value, and of every entry of a tuple.
Whole(n) == Double(n, 0)
Doubles(ns) == [i \in 1..Len(ns) |-> Whole(ns[i])]

\* a < b on doubles.
Less(a, b) == a.n * 2^(b.e) < b.n * 2^(a.e)

\* a + b and a / 2.0 on doubles.
Plus(a, b) ==
    LET e == IF a.e < b.e THEN b.e ELSE a.e
    IN  Double(a.n * 2^(e - a.e) + b.n * 2^(e - b.e), e)
HalfOf(a) == Double(a.n, a.e + 1)

\* QJsonValue::toInt: the value when it is an integer, 0 otherwise.
toInt(x) == IF x.e = 0 THEN x.n ELSE 0

----------------------------------------------------------------------------
(* SequencePoint *)

SequencePoint(p, d, t) == [point |-> p, duration |-> d, timeToTarget |-> t]

\* SequencePoint(): no coordinates, zero duration and timeToTarget.
DefaultPoint == SequencePoint(<<>>, 0, 0)

\* std::min and std::max as the library defines them, on ints.
StdMin(a, b) == IF b < a THEN b ELSE a
StdMax(a, b) == IF a < b THEN b ELSE a

\* The same on doubles.
StdMinD(a, b) == IF Less(b, a) THEN b ELSE a
StdMaxD(a, b) == IF Less(a, b) THEN b ELSE a

\* A clamp that forgets the upper limit.
ClampLowerOnly(lo, hi, v) == StdMax(lo, v)

\* A clamp that forgets the lower limit.
ClampUpperOnly(lo, hi, v) == StdMin(hi, v)

\* std::min(max, std::max(min, v)): the clamp of validatePoint and of the
\* single-field setters.
Clamp(lo, hi, v) == StdMin(hi, StdMax(lo, v))

\* The same clamp on a coordinate.
ClampD(lo, hi, v) == StdMinD(hi, StdMaxD(lo, v))

\* C++ int division by 2: truncation toward zero.
Half(n) == IF n >= 0 THEN n \div 2 ELSE -((-n) \div 2)

----------------------------------------------------------------------------
(* JSON values *)

\* A JSON number is a double; num is Whole(0) in every other value.
JsonUndefined == [type |-> "undefined", num |-> Whole(0), items |-> <<>>]
JsonNull == [type |-> "null", num |-> Whole(0), items |-> <<>>]
JsonString == [type |-> "string", num |-> Whole(0), items |-> <<>>]
JsonDouble(x) == [type |-> "double", num |-> x, items |-> <<>>]
JsonArray(xs) == [type |-> "array", num |-> Whole(0), items |-> xs]
JsonObject(p, d, t) ==
    [type |-> "object", point |-> p, duration |-> d, timeToTarget |-> t]

\* SequencePoint::toJson: {"point": [...], "duration": d, "timeToTarget": t}.
toJson(sp) ==
    JsonObject(JsonArray([i \in 1..Len(sp.point) |-> JsonDouble(sp.point[i])]),
               JsonDouble(Whole(sp.duration)), JsonDouble(Whole(sp.timeToTarget)))

\* SequencePoint::fromJson: fails when a field is missing or of the wrong type.
fromJson(obj) ==
    LET ok == /\ obj.point.type = "array"
              /\ \A i \in 1..Len(obj.point.items) : obj.point.items[i].type = "double"
              /\ obj.duration.type = "double"
              /\ obj.timeToTarget.type = "double"
    IN  [ok |-> ok,
         sp |-> IF ok
                THEN SequencePoint([i \in 1..Len(obj.point.items) |-> obj.point.items[i].num],
                                   toInt(obj.duration.num),
                                   toInt(obj.timeToTarget.num))
                ELSE DefaultPoint]

----------------------------------------------------------------------------
(* Sequence: construction and validation *)

isValidDim(dim) == dim > 0

\* p.point resized to dim entries: padded with 0.0 or truncated.
Resized(point, dim) ==
    [i \in 1..dim |-> IF i <= Len(point) THEN point[i] ELSE Whole(0)]

validatePointWith(dim, mn, mx, p, skipLimits) ==
    LET q == Resized(p.point, dim)
    IN  IF skipLimits
        THEN [p EXCEPT !.point = q]
        ELSE SequencePoint([i \in 1..dim |-> ClampD(mn.point[i], mx.point[i], q[i])],
                           Clamp(mn.duration, mx.duration, p.duration),
                           Clamp(mn.timeToTarget, mx.timeToTarget, p.timeToTarget))

\* Sequence::Sequence(pointDim, minVals, maxVals) as a record of the fields.
Sequence(pointDim, minVals, maxVals) ==
    [m_pointDim |-> pointDim,
     m_min |-> validatePointWith(pointDim, DefaultPoint, DefaultPoint, minVals, TRUE),
     m_max |-> validatePointWith(pointDim, DefaultPoint, DefaultPoint, maxVals, TRUE),
     m_sequence |-> <<>>,
     m_curPoint |-> -1,
     m_isModified |-> FALSE]

\* Sequence(): the default, invalid object.
DefaultSequence == Sequence(0, DefaultPoint, DefaultPoint)

\* defaultSequencePoint(sequence): the midpoint of the bounds in duration
\* and in every coordinate; timeToTarget is left as constructed.
defaultSequencePointOf(dim, mn, mx) ==
    SequencePoint([i \in 1..dim |-> HalfOf(Plus(mx.point[i], mn.point[i]))],
                  Half(mx.duration + mn.duration),
                  DefaultPoint.timeToTarget)

----------------------------------------------------------------------------
(* Persistence: load(const QJsonDocument&) and save() *)

\* A load that never compares an element's dimension with the previous one.
dimMismatchIgnored(dim, sp) == FALSE

\* (dim != -1) && (dim != sp.point.length())
dimMismatch(dim, sp) == (dim # -1) /\ (dim # Len(sp.point))

\* error || (index < 1)
loadFailed(st) == st.error \/ (st.index < 1)

\* A placement that takes the second element for the first point.
placedMaxInList(st, sp) ==
    IF st.index = 0 THEN [st EXCEPT !.minPoint = sp]
    ELSE [st EXCEPT !.list = Append(@, sp)]

\* The first two elements are the min and the max, the others the points.
placed(st, sp) ==
    IF st.index = 0 THEN [st EXCEPT !.minPoint = sp]
    ELSE IF st.index = 1 THEN [st EXCEPT !.maxPoint = sp]
    ELSE [st EXCEPT !.list = Append(@, sp)]

\* The for loop over json.array(), from element i on; it breaks at the
\* first error.
RECURSIVE loadLoop(_, _, _)
loadLoop(items, i, st) ==
    IF i > Len(items) THEN st
    ELSE LET jsp == items[i] IN
         IF jsp.type # "object" THEN [st EXCEPT !.error = TRUE]
         ELSE LET r == fromJson(jsp) IN
              IF ~r.ok THEN [st EXCEPT !.error = TRUE]
              ELSE LET st1 == placed(st, r.sp) IN
                   IF dimMismatch(st1.dim, r.sp) THEN [st1 EXCEPT !.error = TRUE]
                   ELSE loadLoop(items, i + 1,
                                 [st1 EXCEPT !.dim = Len(r.sp.point), !.index = @ + 1])

load(json) ==
    IF json.type # "array" THEN DefaultSequence
    ELSE LET st == loadLoop(json.items, 1,
                            [list |-> <<>>, minPoint |-> DefaultPoint,
                             maxPoint |-> DefaultPoint, dim |-> -1,
                             index |-> 0, error |-> FALSE])
         IN  IF loadFailed(st) THEN DefaultSequence
             ELSE LET s == Sequence(st.dim, st.minPoint, st.maxPoint)
                  IN  [s EXCEPT
                         !.m_sequence =
                             [i \in 1..Len(st.list) |->
                                 validatePointWith(s.m_pointDim, s.m_min, s.m_max,
                                                   st.list[i], FALSE)],
                         !.m_curPoint = IF Len(st.list) > 0 THEN 0 ELSE -1]

\* A save that writes the max before the min.
saveArraySwapped(mn, mx, seq) ==
    <<toJson(mx), toJson(mn)>> \o [i \in 1..Len(seq) |-> toJson(seq[i])]

\* The QJsonArray save() builds: min, max, then every point in order.
saveArray(mn, mx, seq) ==
    <<toJson(mn), toJson(mx)>> \o [i \in 1..Len(seq) |-> toJson(seq[i])]

\* The document save() returns for an object with these fields.
saveDocument(dim, mn, mx, seq) ==
    IF ~isValidDim(dim) THEN JsonNull ELSE JsonArray(saveArray(mn, mx, seq))

----------------------------------------------------------------------------
(* The object in the state *)

isValid == isValidDim(m_pointDim)

validatePoint(p) == validatePointWith(m_pointDim, m_min, m_max, p, FALSE)

defaultSequencePoint == defaultSequencePointOf(m_pointDim, m_min, m_max)

\* 0-based list access, as the code indexes.
at(pos) == m_sequence[pos + 1]
\* An insertion that puts the element at the end of the list.
insertAtEnd(seq, pos, e) == Append(seq, e)

\* QVector::insert(pos, e)
insert(seq, pos, e) == SubSeq(seq, 1, pos) \o <<e>> \o SubSeq(seq, pos + 1, Len(seq))

\* A removal that drops the last element of the list.
removeAtEnd(seq, pos) == SubSeq(seq, 1, Len(seq) - 1)

\* QVector::removeAt(pos)
removeAt(seq, pos) == SubSeq(seq, 1, pos) \o SubSeq(seq, pos + 2, Len(seq))
replace(seq, pos, e) == [seq EXCEPT ![pos + 1] = e]

Signal(name, pos) == [name |-> name, pos |-> pos]
numPointsChanged == Signal("numPointsChanged", -1)
curPointChanged == Signal("curPointChanged", -1)
curPointValuesChanged == Signal("curPointValuesChanged", -1)
isModifiedChanged == Signal("isModifiedChanged", -1)
pointValuesChanged(pos) == Signal("pointValuesChanged", pos)

Call(op, arg, io) == [op |-> op, arg |-> arg, io |-> io]
NoResult == [ok |-> FALSE, doc |-> JsonNull]

\* The fields of the state take the values of the record s.
Becomes(s) ==
    /\ m_pointDim' = s.m_pointDim
    /\ m_min' = s.m_min
    /\ m_max' = s.m_max
    /\ m_sequence' = s.m_sequence
    /\ m_curPoint' = s.m_curPoint
    /\ m_isModified' = s.m_isModified

\* An object exists: construction or load has returned.
constructed == lastCall.op # "none"

\* A marking that emits isModifiedChanged whatever the flag was.
sequenceModifiedAlwaysEmits(emitted) ==
    /\ m_isModified' = TRUE
    /\ signals' = emitted \o <<isModifiedChanged>>

\* A marking that never sets the flag.
sequenceModifiedDropped(emitted) ==
    /\ signals' = emitted
    /\ UNCHANGED m_isModified

\* Sequence::sequenceModified, after the signals `emitted` of the caller.
sequenceModified(emitted) ==
    IF ~m_isModified
    THEN /\ m_isModified' = TRUE
         /\ signals' = emitted \o <<isModifiedChanged>>
    ELSE /\ signals' = emitted
         /\ UNCHANGED m_isModified

\* A return that changes nothing and emits nothing.
Return == /\ signals' = <<>>
          /\ UNCHANGED object

----------------------------------------------------------------------------
(* Inputs *)

\* Bound points handed to the constructor or found in a file.
PointA == SequencePoint(Doubles(<<0>>), 1, 0)
PointB == SequencePoint(Doubles(<<2>>), 1, 0)

\* The constructor calls made: Sequence(), and Sequence(pointDim, min, max)
\* with ordered bounds, with bounds of another dimension than pointDim
\* (padded, truncated; their midpoint is 0.5), with negative bounds, with min
\* above max, and with pointDim 0.
Constructions ==
    { [pointDim |-> 0, minVals |-> DefaultPoint, maxVals |-> DefaultPoint],
      [pointDim |-> 1, minVals |-> PointA, maxVals |-> PointB],
      [pointDim |-> 2, minVals |-> SequencePoint(Doubles(<<0>>), 1, 1),
                       maxVals |-> SequencePoint(Doubles(<<0, 1, 4>>), 1, 1)],
      [pointDim |-> 1, minVals |-> SequencePoint(Doubles(<<2>>), 0, 0),
                       maxVals |-> SequencePoint(Doubles(<<2>>), 0, 2)],
      [pointDim |-> 1, minVals |-> SequencePoint(Doubles(<<-2>>), -3, 0),
                       maxVals |-> SequencePoint(Doubles(<<0>>), 0, 0)],
      [pointDim |-> 1, minVals |-> PointB, maxVals |-> PointA],
      [pointDim |-> 0, minVals |-> PointA, maxVals |-> PointB] }

\* The elements of the JSON arrays handed to load: well-formed points of
\* dimension 1, 2, 3 and 0, a value that is no object, and objects with a
\* missing or ill-typed field.
JsonElements ==
    { toJson(PointA), toJson(PointB),
      toJson(SequencePoint(Doubles(<<2, 2>>), 1, 1)),
      toJson(SequencePoint(Doubles(<<4, 4, 4>>), 1, 1)),
      toJson(DefaultPoint),
      JsonDouble(Whole(1)),
      JsonObject(JsonArray(<<JsonDouble(Whole(0))>>), JsonUndefined, JsonDouble(Whole(0))),
      JsonObject(JsonString, JsonDouble(Whole(1)), JsonDouble(Whole(0))),
      JsonObject(JsonArray(<<JsonString>>), JsonDouble(Whole(1)), JsonDouble(Whole(0))) }

\* The JSON document {}.
EmptyObjectDocument == JsonObject(JsonUndefined, JsonUndefined, JsonUndefined)

\* The documents handed to load: null, {}, and every array of at most
\* MaxDocLen elements.
Documents ==
    {JsonNull, EmptyObjectDocument}
    \cup { JsonArray(xs) : xs \in UNION { [1..n -> JsonElements] : n \in 0..MaxDocLen } }

\* Arguments of the setters: points of too few and of too many coordinates,
\* scalars below, inside and above the bounds.
PointInputs == { DefaultPoint, SequencePoint(Doubles(<<3, 3, 3, 3>>), 3, 3) }
ScalarInputs == {-1, 1, 3}

\* Arguments of setCurPoint: in range, -1, and far out on both sides.
CurPointInputs == {-5, 1000} \cup (-1 .. MaxLen)

\* What the file system does to save(filename).
IoOutcomes == {"openFails", "writeFails", "ok"}

\* The positions a caller may pass: an index of the list (anything else is
\* undefined behaviour); an invalid object returns before indexing.
Positions == IF isValid THEN 0 .. (Len(m_sequence) - 1) ELSE {0}
Coordinates == IF isValid THEN 0 .. (m_pointDim - 1) ELSE {0}

----------------------------------------------------------------------------
(* Construction and load *)

InitConstructed ==
    \E c \in Constructions :
        LET s == Sequence(c.pointDim, c.minVals, c.maxVals) IN
        /\ m_pointDim = s.m_pointDim
        /\ m_min = s.m_min
        /\ m_max = s.m_max
        /\ m_sequence = s.m_sequence
        /\ m_curPoint = s.m_curPoint
        /\ m_isModified = s.m_isModified
        /\ lastCall = Call("Sequence", 0, "none")
        /\ signals = <<>>
        /\ result = NoResult
        /\ document = JsonNull

\* No object yet: a document is about to be loaded.
InitPending ==
    /\ document \in Documents
    /\ lastCall = Call("none", 0, "none")
    /\ m_pointDim = 0
    /\ m_min = DefaultPoint
    /\ m_max = DefaultPoint
    /\ m_sequence = <<>>
    /\ m_curPoint = -1
    /\ m_isModified = FALSE
    /\ signals = <<>>
    /\ result = NoResult

Init == InitConstructed \/ InitPending

\* Sequence::load(const QJsonDocument&): the object is the one it returns.
loadDocument ==
    /\ lastCall.op = "none"
    /\ Becomes(load(document))
    /\ lastCall' = Call("load", 0, "none")
    /\ signals' = <<>>
    /\ result' = NoResult
    /\ UNCHANGED document

----------------------------------------------------------------------------
(* Cursor and list operations *)

\* A cursor that is only clamped from above.
clampedCurPointUpperOnly(p, length) == IF p >= length THEN length - 1 ELSE p

\* if (p < 0) p = 0; else if (p >= length) p = length - 1;
clampedCurPoint(p, length) ==
    IF p < 0 THEN 0 ELSE IF p >= length THEN length - 1 ELSE p

\* A setCurPoint that marks the Sequence modified when the cursor moves.
setCurPointMarking(p) ==
    /\ constructed
    /\ lastCall' = Call("setCurPoint", p, "none")
    /\ result' = NoResult
    /\ document' = JsonNull
    /\ IF m_sequence = <<>>
       THEN Return
       ELSE LET q == clampedCurPoint(p, Len(m_sequence)) IN
            IF q # m_curPoint
            THEN /\ m_curPoint' = q
                 /\ sequenceModified(<<curPointChanged>>)
                 /\ UNCHANGED <<m_pointDim, m_min, m_max, m_sequence>>
            ELSE Return

setCurPoint(p) ==
    /\ constructed
    /\ lastCall' = Call("setCurPoint", p, "none")
    /\ result' = NoResult
    /\ document' = JsonNull
    /\ IF m_sequence = <<>>
       THEN Return
       ELSE LET q == clampedCurPoint(p, Len(m_sequence)) IN
            IF q # m_curPoint
            THEN /\ m_curPoint' = q
                 /\ signals' = <<curPointChanged>>
                 /\ UNCHANGED <<m_pointDim, m_min, m_max, m_sequence, m_isModified>>
            ELSE Return

insertAfterCurrent ==
    /\ constructed
    /\ Len(m_sequence) < MaxLen
    /\ lastCall' = Call("insertAfterCurrent", 0, "none")
    /\ result' = NoResult
    /\ document' = JsonNull
    /\ IF ~isValid
       THEN Return
       ELSE /\ m_sequence' =
                IF m_curPoint = -1
                THEN Append(m_sequence, validatePoint(defaultSequencePoint))
                ELSE insert(m_sequence, m_curPoint + 1, validatePoint(at(m_curPoint)))
            /\ m_curPoint' = m_curPoint + 1
            /\ sequenceModified(<<numPointsChanged, curPointChanged>>)
            /\ UNCHANGED <<m_pointDim, m_min, m_max>>

insertBeforeCurrent ==
    /\ constructed
    /\ Len(m_sequence) < MaxLen
    /\ lastCall' = Call("insertBeforeCurrent", 0, "none")
    /\ result' = NoResult
    /\ document' = JsonNull
    /\ IF ~isValid
       THEN Return
       ELSE /\ IF m_curPoint = -1
               THEN /\ m_sequence' = Append(m_sequence, validatePoint(defaultSequencePoint))
                    /\ m_curPoint' = 0
                    /\ sequenceModified(<<curPointChanged, numPointsChanged,
                                          curPointValuesChanged>>)
               ELSE /\ m_sequence' = insert(m_sequence, m_curPoint,
                                            validatePoint(at(m_curPoint)))
                    /\ UNCHANGED m_curPoint
                    /\ sequenceModified(<<numPointsChanged, curPointValuesChanged>>)
            /\ UNCHANGED <<m_pointDim, m_min, m_max>>

append ==
    /\ constructed
    /\ Len(m_sequence) < MaxLen
    /\ lastCall' = Call("append", 0, "none")
    /\ result' = NoResult
    /\ document' = JsonNull
    /\ IF ~isValid
       THEN Return
       ELSE LET p == IF m_curPoint = -1 THEN defaultSequencePoint ELSE at(m_curPoint) IN
            /\ m_sequence' = Append(m_sequence, validatePoint(p))
            /\ m_curPoint' = Len(m_sequence)
            /\ sequenceModified(<<numPointsChanged, curPointChanged>>)
            /\ UNCHANGED <<m_pointDim, m_min, m_max>>

\* A removal that leaves the cursor where it was.
curPointAfterRemoveStale(cur, length) == cur

\* if (m_curPoint >= length) m_curPoint = length - 1, length being the new one.
curPointAfterRemove(cur, length) == IF cur >= length THEN length - 1 ELSE cur

removeCurrent ==
    /\ constructed
    /\ lastCall' = Call("removeCurrent", 0, "none")
    /\ result' = NoResult
    /\ document' = JsonNull
    /\ IF ~isValid \/ (m_curPoint = -1)
       THEN Return
       ELSE LET rest == removeAt(m_sequence, m_curPoint) IN
            /\ m_sequence' = rest
            /\ m_curPoint' = curPointAfterRemove(m_curPoint, Len(rest))
            /\ sequenceModified(<<numPointsChanged,
                                  IF m_curPoint >= Len(rest)
                                  THEN curPointChanged ELSE curPointValuesChanged>>)
            /\ UNCHANGED <<m_pointDim, m_min, m_max>>

\* A clear() that leaves an already empty Sequence unmarked.
clearEmptyUnmarked ==
    /\ constructed
    /\ lastCall' = Call("clear", 0, "none")
    /\ result' = NoResult
    /\ document' = JsonNull
    /\ IF ~isValid \/ m_sequence = <<>>
       THEN Return
       ELSE /\ m_sequence' = <<>>
            /\ m_curPoint' = -1
            /\ sequenceModified(<<numPointsChanged, curPointChanged>>)
            /\ UNCHANGED <<m_pointDim, m_min, m_max>>

clear ==
    /\ constructed
    /\ lastCall' = Call("clear", 0, "none")
    /\ result' = NoResult
    /\ document' = JsonNull
    /\ IF ~isValid
       THEN Return
       ELSE /\ IF m_sequence # <<>>
               THEN /\ m_sequence' = <<>>
                    /\ m_curPoint' = -1
                    /\ sequenceModified(<<numPointsChanged, curPointChanged>>)
               ELSE /\ UNCHANGED <<m_sequence, m_curPoint>>
                    /\ sequenceModified(<<>>)
            /\ UNCHANGED <<m_pointDim, m_min, m_max>>

----------------------------------------------------------------------------
(* Field setters *)

\* Signals of a setter that announce the current point whatever pos is.
valuesChangedAlwaysCurrent(pos) ==
    sequenceModified(<<pointValuesChanged(pos), curPointValuesChanged>>)

\* The signals of a setter that changed the point at pos, then the marking.
valuesChanged(pos) ==
    sequenceModified(<<pointValuesChanged(pos)>>
                     \o (IF pos = m_curPoint THEN <<curPointValuesChanged>> ELSE <<>>))

\* Sequence::setPoint(int pos, SequencePoint p), after the call is recorded.
setPointAt(pos, p) ==
    IF ~isValid
    THEN Return
    ELSE LET new == validatePoint(p) IN
         /\ m_sequence' = replace(m_sequence, pos, new)
         /\ IF at(pos) = new
            THEN /\ signals' = <<>>
                 /\ UNCHANGED m_isModified
            ELSE valuesChanged(pos)
         /\ UNCHANGED <<m_pointDim, m_min, m_max, m_curPoint>>

\* Sequence::setPointCoordinate(int pos, int c, double v).
setPointCoordinateAt(pos, c, v) ==
    IF ~isValid
    THEN Return
    ELSE LET new == ClampD(m_min.point[c + 1], m_max.point[c + 1], v) IN
         /\ m_sequence' = replace(m_sequence, pos, [at(pos) EXCEPT !.point[c + 1] = new])
         /\ IF at(pos).point[c + 1] = new
            THEN /\ signals' = <<>>
                 /\ UNCHANGED m_isModified
            ELSE valuesChanged(pos)
         /\ UNCHANGED <<m_pointDim, m_min, m_max, m_curPoint>>

\* Sequence::setDuration(int pos, int d).
setDurationAt(pos, d) ==
    IF ~isValid
    THEN Return
    ELSE LET new == Clamp(m_min.duration, m_max.duration, d) IN
         /\ m_sequence' = replace(m_sequence, pos, [at(pos) EXCEPT !.duration = new])
         /\ IF at(pos).duration = new
            THEN /\ signals' = <<>>
                 /\ UNCHANGED m_isModified
            ELSE valuesChanged(pos)
         /\ UNCHANGED <<m_pointDim, m_min, m_max, m_curPoint>>

\* Sequence::setTimeToTarget(int pos, int t).
setTimeToTargetAt(pos, t) ==
    IF ~isValid
    THEN Return
    ELSE LET new == Clamp(m_min.timeToTarget, m_max.timeToTarget, t) IN
         /\ m_sequence' = replace(m_sequence, pos, [at(pos) EXCEPT !.timeToTarget = new])
         /\ IF at(pos).timeToTarget = new
            THEN /\ signals' = <<>>
                 /\ UNCHANGED m_isModified
            ELSE valuesChanged(pos)
         /\ UNCHANGED <<m_pointDim, m_min, m_max, m_curPoint>>

\* What every setter call records besides its effect on the object.
Called(op, arg) ==
    /\ constructed
    /\ lastCall' = Call(op, arg, "none")
    /\ result' = NoResult
    /\ document' = JsonNull

setPoint(pos, p) == Called("setPoint", pos) /\ setPointAt(pos, p)

setPointCoordinate(pos, c, v) ==
    Called("setPointCoordinate", pos) /\ setPointCoordinateAt(pos, c, v)

setDuration(pos, d) == Called("setDuration", pos) /\ setDurationAt(pos, d)

setTimeToTarget(pos, t) == Called("setTimeToTarget", pos) /\ setTimeToTargetAt(pos, t)

\* The overloads on the current point: nothing happens when there is none.
setPointCurrent(p) ==
    /\ Called("setPointCurrent", m_curPoint)
    /\ IF m_curPoint < 0 THEN Return ELSE setPointAt(m_curPoint, p)

setPointCoordinateCurrent(c, v) ==
    /\ Called("setPointCoordinateCurrent", m_curPoint)
    /\ IF m_curPoint < 0 THEN Return ELSE setPointCoordinateAt(m_curPoint, c, v)

setDurationCurrent(d) ==
    /\ Called("setDurationCurrent", m_curPoint)
    /\ IF m_curPoint < 0 THEN Return ELSE setDurationAt(m_curPoint, d)

setTimeToTargetCurrent(t) ==
    /\ Called("setTimeToTargetCurrent", m_curPoint)
    /\ IF m_curPoint < 0 THEN Return ELSE setTimeToTargetAt(m_curPoint, t)

----------------------------------------------------------------------------
(* Read accessors.  They change nothing.  Each gives what the call       *)
(* returns and the list indices it reads on the way.  A read outside the   *)
(* list or outside the point is undefined behaviour: the call may return   *)
(* any value or abort, and the model gives Undefined, which stands for all *)
(* of these outcomes and equals no value.                                  *)

Read(value, indexed) == [kind |-> "value", value |-> value, indexed |-> indexed]
Undefined(indexed) == [kind |-> "undefined", indexed |-> indexed]

\* pos is an index of m_sequence, c an index of the point there.
inList(pos) == 0 <= pos /\ pos < Len(m_sequence)
inPoint(pos, c) == inList(pos) /\ 0 <= c /\ c < Len(at(pos).point)

\* Sequence::pointCoordinate(int pos, int c)
pointCoordinate(pos, c) ==
    IF inPoint(pos, c) THEN Read(at(pos).point[c + 1], <<pos>>)
    ELSE Undefined(<<pos>>)

\* Sequence::pointDuration(int pos)
pointDuration(pos) ==
    IF inList(pos) THEN Read(at(pos).duration, <<pos>>) ELSE Undefined(<<pos>>)

\* Sequence::pointTimeToTarget(int pos)
pointTimeToTarget(pos) ==
    IF inList(pos) THEN Read(at(pos).timeToTarget, <<pos>>) ELSE Undefined(<<pos>>)

\* Sequence::pointCoordinate(int c)
pointCoordinateCurrent(c) ==
    IF m_curPoint < 0 THEN Read(Whole(0), <<>>) ELSE pointCoordinate(m_curPoint, c)

\* A pointDuration() that does not test the cursor.
pointDurationCurrentUnguarded == pointDuration(m_curPoint)

\* Sequence::pointDuration()
pointDurationCurrent ==
    IF m_curPoint < 0 THEN Read(0, <<>>) ELSE pointDuration(m_curPoint)

\* Sequence::pointTimeToTarget()
pointTimeToTargetCurrent ==
    IF m_curPoint < 0 THEN Read(0, <<>>) ELSE pointTimeToTarget(m_curPoint)

----------------------------------------------------------------------------
(* save() and save(filename) *)

\* A save() that leaves the flag alone.
modifiedAfterSaveKept(valid, old) == old

\* save(): m_isModified = false, unless the object is invalid.
modifiedAfterSave(valid, old) == IF valid THEN FALSE ELSE old

\* QJsonDocument Sequence::save() const
save ==
    /\ constructed
    /\ lastCall' = Call("save", 0, "none")
    /\ result' = [ok |-> FALSE,
                  doc |-> saveDocument(m_pointDim, m_min, m_max, m_sequence)]
    /\ document' = JsonNull
    /\ signals' = <<>>
    /\ m_isModified' = modifiedAfterSave(isValid, m_isModified)
    /\ UNCHANGED <<m_pointDim, m_min, m_max, m_sequence, m_curPoint>>

\* A save(filename) that does not put the flag back after save().
modifiedAfterSaveFileLost(valid, old, io) == IF valid THEN FALSE ELSE old

\* save(filename): save() clears the flag, oldIsModified is put back, and
\* the flag is cleared again only once the file is written.
modifiedAfterSaveFile(valid, old, io) ==
    IF ~valid THEN old
    ELSE LET oldIsModified == old
         IN  IF io = "ok" THEN FALSE ELSE oldIsModified

\* bool Sequence::save(QString filename) const, the file system doing io.
saveFile(io) ==
    /\ constructed
    /\ lastCall' = Call("saveFile", 0, io)
    /\ result' = [ok |-> isValid /\ io = "ok", doc |-> JsonNull]
    /\ document' = JsonNull
    /\ signals' = <<>>
    /\ m_isModified' = modifiedAfterSaveFile(isValid, m_isModified, io)
    /\ UNCHANGED <<m_pointDim, m_min, m_max, m_sequence, m_curPoint>>

----------------------------------------------------------------------------
(* The specification *)

Next ==
    \/ loadDocument
    \/ \E p \in CurPointInputs : setCurPoint(p)
    \/ insertAfterCurrent
    \/ insertBeforeCurrent
    \/ append
    \/ removeCurrent
    \/ clear
    \/ \E pos \in Positions, p \in PointInputs : setPoint(pos, p)
    \/ \E pos \in Positions, c \in Coordinates, v \in ScalarInputs :
           setPointCoordinate(pos, c, Whole(v))
    \/ \E pos \in Positions, d \in ScalarInputs : setDuration(pos, d)
    \/ \E pos \in Positions, t \in ScalarInputs : setTimeToTarget(pos, t)
    \/ \E p \in PointInputs : setPointCurrent(p)
    \/ \E c \in Coordinates, v \in ScalarInputs : setPointCoordinateCurrent(c, Whole(v))
    \/ \E d \in ScalarInputs : setDurationCurrent(d)
    \/ \E t \in ScalarInputs : setTimeToTargetCurrent(t)
    \/ save
    \/ \E io \in IoOutcomes : saveFile(io)

Spec == Init /\ [][Next]_vars

\* The example of the insert semantics: dimension 3, bounds 0..10 on every
\* coordinate and 0..100 on duration and timeToTarget.
ExampleMin == SequencePoint(Doubles(<<0, 0, 0>>), 0, 0)
ExampleMax == SequencePoint(Doubles(<<10, 10, 10>>), 100, 100)

InitExample ==
    LET s == Sequence(Len(ExampleMin.point), ExampleMin, ExampleMax) IN
    /\ m_pointDim = s.m_pointDim
    /\ m_min = s.m_min
    /\ m_max = s.m_max
    /\ m_sequence = s.m_sequence
    /\ m_curPoint = s.m_curPoint
    /\ m_isModified = s.m_isModified
    /\ lastCall = Call("Sequence", 0, "none")
    /\ signals = <<>>
    /\ result = NoResult
    /\ document = JsonNull

\* The list operations and the saves on the example object.
NextExample ==
    \/ \E p \in CurPointInputs : setCurPoint(p)
    \/ insertAfterCurrent
    \/ insertBeforeCurrent
    \/ append
    \/ removeCurrent
    \/ clear
    \/ save
    \/ \E io \in IoOutcomes : saveFile(io)

SpecExample == InitExample /\ [][NextExample]_vars

----------------------------------------------------------------------------
(* Properties *)

\* p has the dimension of the Sequence and lies within [m_min, m_max] in
\* every coordinate, in duration and in timeToTarget.
WithinBounds(p) ==
    /\ Len(p.point) = m_pointDim
    /\ \A i \in 1..m_pointDim :
           ~Less(p.point[i], m_min.point[i]) /\ ~Less(m_max.point[i], p.point[i])
    /\ m_min.duration <= p.duration /\ p.duration <= m_max.duration
    /\ m_min.timeToTarget <= p.timeToTarget /\ p.timeToTarget <= m_max.timeToTarget

\* min <= max in every field.
BoundsOrdered ==
    /\ \A i \in 1..m_pointDim : ~Less(m_max.point[i], m_min.point[i])
    /\ m_min.duration <= m_max.duration
    /\ m_min.timeToTarget <= m_max.timeToTarget

\* C1 as stated: in every reachable state of a valid Sequence every stored
\* point lies within [min, max] in every coordinate, in duration and in
\* timeToTarget.
C1_AllPointsWithinBounds ==
    isValid => \A k \in 1..Len(m_sequence) : WithinBounds(m_sequence[k])

\* C1 amended: in every reachable state of a valid Sequence whose bounds
\* are ordered (min <= max in every field) every stored point lies within
\* [min, max] in every coordinate, in duration and in timeToTarget.
C1_PointsWithinOrderedBounds ==
    (isValid /\ BoundsOrdered) =>
        \A k \in 1..Len(m_sequence) : WithinBounds(m_sequence[k])

\* A setter has just clamped a coordinate to the upper bound of a valid
\* Sequence with ordered bounds and two points or more.
C1_Witness ==
    /\ isValid /\ BoundsOrdered
    /\ lastCall.op = "setPointCoordinate"
    /\ signals # <<>>
    /\ Len(m_sequence) >= 2
    /\ Less(m_min.point[1], m_max.point[1])
    /\ m_sequence[lastCall.arg + 1].point[1] = m_max.point[1]

\* C2: once an object exists, the cursor is -1 exactly when the list is
\* empty, and otherwise an index of the list.
C2_CursorInRange ==
    constructed =>
        /\ (m_curPoint = -1) <=> (m_sequence = <<>>)
        /\ (m_sequence # <<>>) => (0 <= m_curPoint /\ m_curPoint <= Len(m_sequence) - 1)

\* removeCurrent has just removed the last element of a longer list and
\* moved the cursor back to the new last index.
C2_Witness ==
    /\ lastCall.op = "removeCurrent"
    /\ signals # <<>> /\ signals[2] = curPointChanged
    /\ Len(m_sequence) >= 1
    /\ m_curPoint = Len(m_sequence) - 1

\* C3: for every reachable valid Sequence, loading the document save()
\* returns gives a valid Sequence with the same pointDim, min, max and
\* ordered point list, and an unset modified flag.
C3_RoundTrip ==
    (constructed /\ isValid) =>
        LET s == load(saveDocument(m_pointDim, m_min, m_max, m_sequence)) IN
        /\ isValidDim(s.m_pointDim)
        /\ s.m_pointDim = m_pointDim
        /\ s.m_min = m_min
        /\ s.m_max = m_max
        /\ s.m_sequence = m_sequence
        /\ s.m_isModified = FALSE

\* save() has just returned the document of a modified-then-saved Sequence
\* of two different points and different bounds, and load gives them back.
C3_Witness ==
    /\ isValid
    /\ lastCall.op = "save"
    /\ Len(m_sequence) >= 2
    /\ m_sequence[1] # m_sequence[2]
    /\ m_min # m_max
    /\ load(result.doc).m_sequence = m_sequence

\* The midpoint of two points in every field.
Midpoint(mn, mx) ==
    SequencePoint([i \in 1..Len(mn.point) |-> HalfOf(Plus(mx.point[i], mn.point[i]))],
                  Half(mx.duration + mn.duration),
                  Half(mx.timeToTarget + mn.timeToTarget))

\* C4 as stated: insertAfterCurrent() on an empty valid Sequence leaves
\* exactly one point, the midpoint of min and max in every field, and the
\* cursor at 0; with the bounds (0,0,0; 0; 0) and (10,10,10; 100; 100) that
\* point is (5,5,5; 50; 50).
C4_InsertIntoEmptyGivesMidpoint ==
    (isValid /\ lastCall.op = "insertAfterCurrent" /\ Len(m_sequence) <= 1) =>
        /\ m_sequence = <<Midpoint(m_min, m_max)>>
        /\ m_curPoint = 0

\* The calls that change the list, and the setters.
ListMutators == {"insertAfterCurrent", "insertBeforeCurrent", "append", "clear"}
Setters == {"setPoint", "setPointCoordinate", "setDuration", "setTimeToTarget",
            "setPointCurrent", "setPointCoordinateCurrent", "setDurationCurrent",
            "setTimeToTargetCurrent"}

\* What C5 says of one call.
C5_Step ==
    /\ (isValid /\ lastCall'.op \in ListMutators) => m_isModified'
    /\ (isValid /\ lastCall'.op = "removeCurrent" /\ m_curPoint # -1) => m_isModified'
    /\ (isValid /\ lastCall'.op \in Setters /\ m_sequence' # m_sequence) => m_isModified'
    /\ (m_isModified /\ ~m_isModified') =>
           (lastCall'.op = "save" \/ (lastCall'.op = "saveFile" /\ result'.ok))
    /\ (lastCall'.op = "saveFile" /\ result'.ok) => ~m_isModified'

\* C5: on a valid Sequence every successful list or value mutation leaves
\* isModified true, only a successful save makes a true flag false, and the
\* flag is false right after construction, load and a successful save.
C5_ModifiedFlag ==
    /\ [](lastCall.op \in {"none", "Sequence", "load", "save"} => ~m_isModified)
    /\ [][C5_Step]_vars

\* The flag set by a mutation has stayed true through a cursor move and a
\* save(filename) that failed.
C5_Witness ==
    /\ isValid
    /\ m_isModified
    /\ lastCall.op = "saveFile"
    /\ lastCall.io = "writeFails"
    /\ m_sequence # <<>>

\* What C6 says of one save(filename) call on a valid Sequence.
C6_Step ==
    (isValid /\ lastCall'.op = "saveFile") =>
        /\ (lastCall'.io # "ok") => (~result'.ok /\ m_isModified' = m_isModified)
        /\ (lastCall'.io = "ok") => (result'.ok /\ ~m_isModified')
        /\ (m_isModified' # m_isModified) => (result'.ok /\ ~m_isModified')
        /\ UNCHANGED <<m_sequence, m_curPoint, m_min, m_max>>

\* C6: save(filename) on a valid Sequence returns false and leaves the
\* modified flag as it was when opening or writing fails, clears the flag
\* only when it returns true, and never changes list, cursor, min or max.
C6_SaveFileKeepsFlagOnFailure == [][C6_Step]_vars

\* save(filename) has just failed to open the file of a modified Sequence.
C6_Witness ==
    /\ isValid
    /\ lastCall.op = "saveFile"
    /\ lastCall.io = "openFails"
    /\ ~result.ok
    /\ m_isModified

\* C7: an invalid Sequence stays empty, with cursor -1 and an unset
\* modified flag, whatever is called; no call emits a signal,
\* save(filename) returns false and save() the null document.
C7_InvalidIsInert ==
    (constructed /\ ~isValid) =>
        /\ m_sequence = <<>>
        /\ m_curPoint = -1
        /\ ~m_isModified
        /\ signals = <<>>
        /\ (lastCall.op = "saveFile") => ~result.ok
        /\ (lastCall.op = "save") => (result.doc = JsonNull)

\* clear() has just been called on an invalid Sequence.
C7_Witness ==
    /\ ~isValid
    /\ lastCall.op = "clear"
    /\ m_sequence = <<>>

\* The dimension of a well-formed point object.
JsonDim(e) == Len(e.point.items)

\* The documents C8 names: no array, an empty array, an element that is no
\* object or that fromJson rejects, or a dimension other than the first's.
Malformed(d) ==
    \/ d.type # "array"
    \/ Len(d.items) = 0
    \/ \E i \in 1..Len(d.items) :
           \/ d.items[i].type # "object"
           \/ ~fromJson(d.items[i]).ok
    \/ \E i \in 1..Len(d.items) : JsonDim(d.items[i]) # JsonDim(d.items[1])

\* C8: load of a document that is no array, or an empty array, or holds an
\* element that is no object, that fromJson rejects or whose dimension is
\* not the first element's, returns the invalid Sequence: pointDim 0, no
\* point, cursor -1, flag unset.
C8_LoadRejectsMalformed ==
    (lastCall.op = "load" /\ Malformed(document)) =>
        /\ m_pointDim = 0
        /\ m_sequence = <<>>
        /\ m_curPoint = -1
        /\ ~m_isModified

\* load has just returned an invalid Sequence for a point of dimension 3
\* followed by a point of dimension 2.
C8_Witness ==
    /\ lastCall.op = "load"
    /\ document = JsonArray(<<toJson(SequencePoint(Doubles(<<4, 4, 4>>), 1, 1)),
                              toJson(SequencePoint(Doubles(<<2, 2>>), 1, 1))>>)
    /\ m_pointDim = 0

\* What C9 says of one setCurPoint(p) call.
C9_Step ==
    \A p \in CurPointInputs :
        (lastCall' = Call("setCurPoint", p, "none")) =>
            IF m_sequence = <<>>
            THEN UNCHANGED object /\ signals' = <<>>
            ELSE /\ 0 <= m_curPoint' /\ m_curPoint' <= Len(m_sequence) - 1
                 /\ (p < 0) => (m_curPoint' = 0)
                 /\ (p >= Len(m_sequence)) => (m_curPoint' = Len(m_sequence) - 1)
                 /\ (0 <= p /\ p < Len(m_sequence)) => (m_curPoint' = p)
                 /\ signals' = IF m_curPoint' # m_curPoint
                               THEN <<curPointChanged>> ELSE <<>>
                 /\ UNCHANGED <<m_pointDim, m_min, m_max, m_sequence, m_isModified>>

\* C9: setCurPoint(p) on a non-empty list sets the cursor to p clamped into
\* [0, length-1] and emits curPointChanged exactly when the cursor changed;
\* on an empty list it changes nothing and emits nothing.
C9_SetCurPointClamps == [][C9_Step]_vars

\* setCurPoint(1000) has just moved the cursor to the last index of a list
\* of two points or more.
C9_Witness ==
    /\ lastCall = Call("setCurPoint", 1000, "none")
    /\ Len(m_sequence) >= 2
    /\ m_curPoint = Len(m_sequence) - 1
    /\ signals = <<curPointChanged>>

\* What C10 says of one save() call.
C10_Step ==
    (lastCall'.op = "save") =>
        UNCHANGED <<m_pointDim, m_min, m_max, m_sequence, m_curPoint>>

\* C10: right after save() on a valid Sequence the modified flag is false,
\* a second save() would return the document the first returned and leave
\* the flag false; save() changes nothing but the flag.
C10_SaveIdempotent ==
    /\ []((isValid /\ lastCall.op = "save") =>
            /\ ~m_isModified
            /\ saveDocument(m_pointDim, m_min, m_max, m_sequence) = result.doc
            /\ ~modifiedAfterSave(isValid, m_isModified))
    /\ [][C10_Step]_vars

\* save() has just returned the array of min, max and the points of a
\* non-empty valid Sequence.
C10_Witness ==
    /\ isValid
    /\ lastCall.op = "save"
    /\ m_sequence # <<>>
    /\ result.doc.type = "array"
    /\ Len(result.doc.items) = Len(m_sequence) + 2

\* What C11 says of one removeCurrent() call.
C11_Step ==
    (isValid /\ lastCall'.op = "removeCurrent" /\ Len(m_sequence) = 1) =>
        (m_sequence' = <<>> /\ m_curPoint' = -1)

\* C11: removeCurrent() on a valid Sequence of one point leaves an empty
\* list and cursor -1; whenever the cursor is -1, pointCoordinate(c),
\* pointDuration() and pointTimeToTarget() return 0 and read no element of
\* the list.
C11_RemoveLastThenSentinels ==
    /\ []((m_curPoint = -1) =>
            /\ \A c \in 0..2 : pointCoordinateCurrent(c) = Read(Whole(0), <<>>)
            /\ pointDurationCurrent = Read(0, <<>>)
            /\ pointTimeToTargetCurrent = Read(0, <<>>))
    /\ [][C11_Step]_vars

\* removeCurrent() has just removed the only point of a valid Sequence, and
\* the accessors of the current point return 0.
C11_Witness ==
    /\ isValid
    /\ lastCall.op = "removeCurrent"
    /\ signals # <<>>
    /\ m_sequence = <<>>
    /\ m_curPoint = -1
    /\ pointDurationCurrent.value = 0
    /\ pointCoordinateCurrent(0).value = Whole(0)

\* The modified-changed notification of a call that marks the Sequence
\* modified: emitted when the flag was false.
Marking == IF ~m_isModified THEN <<isModifiedChanged>> ELSE <<>>

\* What C12 says of one clear() call.
C12_Step ==
    (isValid /\ lastCall'.op = "clear") =>
        /\ m_sequence' = <<>>
        /\ m_curPoint' = -1
        /\ m_isModified'
        /\ signals' = (IF m_sequence # <<>>
                       THEN <<numPointsChanged, curPointChanged>>
                       ELSE <<>>) \o Marking

\* C12: clear() on a valid Sequence always leaves an empty list, cursor -1
\* and the modified flag set, also when the list was already empty;
\* length-changed followed by cursor-changed is emitted only when the list
\* was non-empty before the call.
C12_ClearAlwaysMarks == [][C12_Step]_vars

\* clear() has just marked a valid Sequence modified without emitting
\* length-changed or cursor-changed: its list was already empty.
C12_Witness ==
    /\ isValid
    /\ lastCall.op = "clear"
    /\ m_sequence = <<>>
    /\ m_curPoint = -1
    /\ m_isModified
    /\ signals = <<isModifiedChanged>>

\* What C13 says of one insertBeforeCurrent() call.
C13_Step ==
    (isValid /\ lastCall'.op = "insertBeforeCurrent") =>
        signals' = <<numPointsChanged,
                     IF m_sequence = <<>>
                     THEN curPointChanged ELSE curPointValuesChanged>>
                   \o Marking

\* C13: insertBeforeCurrent() on a valid Sequence emits length-changed
\* first, then cursor-changed (list was empty) or
\* current-point-values-changed (list was non-empty), then the modified
\* marking; nothing about the cursor or the content precedes
\* length-changed.
C13_InsertBeforeSignalOrder == [][C13_Step]_vars

\* What C14 says of one insertAfterCurrent() call: k is m_curPoint and L
\* is Len(m_sequence), the list being indexed from 1 here.
C14_Step ==
    (isValid /\ lastCall'.op = "insertAfterCurrent" /\ m_sequence # <<>>) =>
        /\ Len(m_sequence') = Len(m_sequence) + 1
        /\ m_curPoint' = m_curPoint + 1
        /\ m_sequence'[m_curPoint + 2] = m_sequence'[m_curPoint + 1]
        /\ \A i \in 1..(m_curPoint + 1) : m_sequence'[i] = m_sequence[i]
        /\ \A i \in (m_curPoint + 2)..Len(m_sequence) :
              m_sequence'[i + 1] = m_sequence[i]
        /\ m_isModified'
        /\ signals' = <<numPointsChanged, curPointChanged>> \o Marking

\* C14: insertAfterCurrent() on a valid non-empty Sequence with cursor k
\* and length L gives length L+1 and cursor k+1, the point at k+1 equal to
\* the point at k, the points 0..k where they were and the points
\* k+1..L-1 one index up; it emits length-changed, cursor-changed, then
\* marks the Sequence modified.
C14_InsertAfterCopiesCurrent == [][C14_Step]_vars

\* insertAfterCurrent() has just copied the point at index 0 to index 1 in
\* front of a different point, which moved to index 2.
C14_Witness ==
    /\ isValid
    /\ lastCall.op = "insertAfterCurrent"
    /\ Len(m_sequence) = 3
    /\ m_curPoint = 1
    /\ m_sequence[2] = m_sequence[1]
    /\ m_sequence[3] # m_sequence[1]
    /\ signals[1] = numPointsChanged

\* What C15 says of one removeCurrent() call.
C15_Step ==
    (isValid /\ lastCall'.op = "removeCurrent") =>
        IF m_curPoint >= 0
        THEN /\ Len(m_sequence') = Len(m_sequence) - 1
             /\ \A i \in 1..m_curPoint : m_sequence'[i] = m_sequence[i]
             /\ \A i \in (m_curPoint + 2)..Len(m_sequence) :
                   m_sequence'[i - 1] = m_sequence[i]
             /\ IF m_curPoint = Len(m_sequence) - 1
                THEN /\ m_curPoint' = Len(m_sequence') - 1
                     /\ signals' = <<numPointsChanged, curPointChanged>> \o Marking
                ELSE /\ m_curPoint' = m_curPoint
                     /\ signals' = <<numPointsChanged, curPointValuesChanged>>
                                   \o Marking
             /\ m_isModified'
        ELSE /\ UNCHANGED object
             /\ signals' = <<>>

\* C15: removeCurrent() on a valid Sequence with cursor k >= 0 removes
\* exactly the element at k, emits length-changed, then cursor-changed
\* (k was the last index; the cursor becomes the new length - 1) or
\* current-point-values-changed (the cursor stays k), then marks the
\* Sequence modified; with cursor -1 it changes and emits nothing.
C15_RemoveCurrentExactlyOne == [][C15_Step]_vars

\* removeCurrent() has just removed a point that was not the last one: the
\* cursor stayed, and a different point is now under it.
C15_Witness ==
    /\ isValid
    /\ lastCall.op = "removeCurrent"
    /\ Len(m_sequence) = 2
    /\ m_curPoint = 0
    /\ m_sequence[1] # m_sequence[2]
    /\ Len(signals) >= 2
    /\ signals[2] = curPointValuesChanged

\* The setters that take the index of the point.
PositionalSetters ==
    {"setPoint", "setPointCoordinate", "setDuration", "setTimeToTarget"}

\* What C16 says of one call of a positional setter; pos is the index the
\* call was given.
C16_Step ==
    LET pos == lastCall'.arg IN
    (/\ isValid
     /\ lastCall'.op \in PositionalSetters
     /\ 0 <= pos /\ pos < Len(m_sequence)) =>
        /\ UNCHANGED <<m_curPoint, m_pointDim, m_min, m_max>>
        /\ Len(m_sequence') = Len(m_sequence)
        /\ \A i \in 1..Len(m_sequence) :
              (i # pos + 1) => (m_sequence'[i] = m_sequence[i])
        /\ IF m_sequence'[pos + 1] = m_sequence[pos + 1]
           THEN /\ signals' = <<>>
                /\ UNCHANGED m_isModified
           ELSE /\ signals' = <<pointValuesChanged(pos)>>
                              \o (IF pos = m_curPoint
                                  THEN <<curPointValuesChanged>> ELSE <<>>)
                              \o Marking
                /\ m_isModified'

\* C16: setPoint(pos, p), setPointCoordinate(pos, c, v), setDuration(pos, d)
\* and setTimeToTarget(pos, t) on a valid Sequence with pos in range emit
\* nothing and leave the flag alone when the clamped value equals the
\* stored one; otherwise they emit point-values-changed(pos), then
\* current-point-values-changed exactly when pos is the cursor, then mark
\* the Sequence modified.  They change neither the cursor, nor the length,
\* nor any other point.
C16_SettersNotifyOnChange == [][C16_Step]_vars

\* setDuration(pos, d) has just changed a point that is not the current
\* one: point-values-changed(pos) was emitted without
\* current-point-values-changed.
C16_Witness ==
    /\ isValid
    /\ lastCall.op = "setDuration"
    /\ lastCall.arg # m_curPoint
    /\ signals # <<>>
    /\ signals[1] = pointValuesChanged(lastCall.arg)
    /\ \A i \in 1..Len(signals) : signals[i] # curPointValuesChanged

\* The clamp as C17 writes it, max(minV, min(maxV, v)), on ints and on
\* doubles.
StatedClamp(lo, hi, v) == StdMax(lo, StdMin(hi, v))
StatedClampD(lo, hi, v) == StdMaxD(lo, StdMinD(hi, v))

\* The same for ordered bounds, and the upper bound when minV > maxV.
OrderedOrUpperClamp(lo, hi, v) ==
    IF lo <= hi THEN StatedClamp(lo, hi, v) ELSE hi
OrderedOrUpperClampD(lo, hi, v) ==
    IF ~Less(hi, lo) THEN StatedClampD(lo, hi, v) ELSE hi

\* p with its point resized to pointDim, every coordinate through FD and
\* both ints through F, with the bounds of the Sequence.
ClampedBy(F(_, _, _), FD(_, _, _), p) ==
    LET q == Resized(p.point, m_pointDim) IN
    SequencePoint([i \in 1..m_pointDim |-> FD(m_min.point[i], m_max.point[i], q[i])],
                  F(m_min.duration, m_max.duration, p.duration),
                  F(m_min.timeToTarget, m_max.timeToTarget, p.timeToTarget))

\* Points given to validatePoint: below, inside and above the bounds.
ClampInputs ==
    PointInputs \cup { SequencePoint(Doubles(<<-3, 1>>), -3, 1),
                       SequencePoint(Doubles(<<1>>), 1, -1) }

\* validatePoint(p) is the clamp of every field.
ValidatePointClampsBy(F(_, _, _), FD(_, _, _)) ==
    isValid => \A p \in ClampInputs : validatePoint(p) = ClampedBy(F, FD, p)

\* A call of a positional setter on a valid Sequence stores the clamp of
\* its argument; pos is the index the call was given.
SettersClampBy(F(_, _, _), FD(_, _, _)) ==
    LET pos == lastCall'.arg
        op == lastCall'.op
    IN  isValid =>
        /\ (op = "setPoint") =>
              \A p \in PointInputs :
                  setPoint(pos, p) => (m_sequence'[pos + 1] = ClampedBy(F, FD, p))
        /\ (op = "setPointCoordinate") =>
              \A c \in Coordinates, v \in ScalarInputs :
                  setPointCoordinate(pos, c, Whole(v)) =>
                      (m_sequence'[pos + 1].point[c + 1] =
                           FD(m_min.point[c + 1], m_max.point[c + 1], Whole(v)))
        /\ (op = "setDuration") =>
              \A d \in ScalarInputs :
                  setDuration(pos, d) =>
                      (m_sequence'[pos + 1].duration =
                           F(m_min.duration, m_max.duration, d))
        /\ (op = "setTimeToTarget") =>
              \A t \in ScalarInputs :
                  setTimeToTarget(pos, t) =>
                      (m_sequence'[pos + 1].timeToTarget =
                           F(m_min.timeToTarget, m_max.timeToTarget, t))

\* C17 as stated: validatePoint(p) with limits returns, for every
\* coordinate, duration and timeToTarget, max(minV, min(maxV, v)) for every
\* v and every pair of bounds, minV > maxV included; the single-field
\* setters apply the same clamp.
C17_ClampAsStated ==
    /\ [] ValidatePointClampsBy(StatedClamp, StatedClampD)
    /\ [][SettersClampBy(StatedClamp, StatedClampD)]_vars

\* C17 amended: validatePoint(p) with limits and the single-field setters
\* return max(minV, min(maxV, v)) when minV <= maxV, and maxV when
\* minV > maxV.
C17_ClampOrderedOrUpper ==
    /\ [] ValidatePointClampsBy(OrderedOrUpperClamp, OrderedOrUpperClampD)
    /\ [][SettersClampBy(OrderedOrUpperClamp, OrderedOrUpperClampD)]_vars

\* setPointCoordinate(pos, c, v) has just been called on a point of a valid
\* Sequence whose lower bound of the first coordinate is above the upper
\* one: the coordinate stored is the upper bound.
C17_Witness ==
    /\ isValid
    /\ Less(m_max.point[1], m_min.point[1])
    /\ lastCall.op = "setPointCoordinate"
    /\ m_sequence # <<>>
    /\ at(lastCall.arg).point[1] = m_max.point[1]
    /\ at(lastCall.arg).point[1] # m_min.point[1]

\* The documents C18 names: an array of at least one object that fromJson
\* accepts, all of the same dimension, which is positive.
WellFormed(d) ==
    /\ d.type = "array"
    /\ Len(d.items) >= 1
    /\ \A i \in 1..Len(d.items) :
          /\ d.items[i].type = "object"
          /\ fromJson(d.items[i]).ok
          /\ Len(fromJson(d.items[i]).sp.point) = Len(fromJson(d.items[1]).sp.point)
    /\ Len(fromJson(d.items[1]).sp.point) > 0

\* Element i of the loaded array, counted from 0, as a point.
Element(i) == fromJson(document.items[i + 1]).sp

\* What C18 says of the Sequence that load returned, but for its max.
C18_Loaded ==
    LET n == Len(document.items) IN
    /\ isValid
    /\ m_pointDim = Len(Element(0).point)
    /\ m_min = Element(0)
    /\ m_sequence = [i \in 1..(n - 2) |-> validatePoint(Element(i + 1))]
    /\ m_curPoint = (IF n > 2 THEN 0 ELSE -1)
    /\ ~m_isModified

\* C18 as stated: load of an array of n >= 1 well-formed point objects of
\* one dimension d > 0 returns a valid Sequence with pointDim d, min the
\* element 0, max the element 1 and the list the elements 2..n-1 in order,
\* each through validatePoint; the cursor is 0 if the list is non-empty and
\* -1 otherwise, and the modified flag is false.
C18_LoadAsStated ==
    (lastCall.op = "load" /\ WellFormed(document)) =>
        /\ C18_Loaded
        /\ Len(document.items) >= 2
        /\ m_max = Element(1)

\* C18 amended: the same for n >= 2; for n = 1 there is no element 1, and
\* max is the default-constructed point resized to d coordinates.
C18_LoadTwoOrMore ==
    (lastCall.op = "load" /\ WellFormed(document)) =>
        /\ C18_Loaded
        /\ m_max = (IF Len(document.items) >= 2
                    THEN Element(1)
                    ELSE [DefaultPoint EXCEPT !.point = Resized(<<>>, m_pointDim)])

\* load has just returned a Sequence of two points for an array of four
\* elements, the first point clamped into the bounds.
C18_Witness ==
    /\ lastCall.op = "load"
    /\ WellFormed(document)
    /\ Len(document.items) = 4
    /\ Len(m_sequence) = 2
    /\ m_sequence[1] # Element(2)
    /\ m_min = Element(0)
    /\ m_max = Element(1)
    /\ m_curPoint = 0

\* The positions of isModifiedChanged among the signals of a call.
ModifiedChangedAt(sigs) == {i \in 1..Len(sigs) : sigs[i] = isModifiedChanged}

\* What C19 says of one call.
C19_Step ==
    /\ (ModifiedChangedAt(signals') # {}) <=> (~m_isModified /\ m_isModified')
    /\ Cardinality(ModifiedChangedAt(signals')) <= 1
    /\ (m_isModified /\ ~m_isModified') =>
           /\ lastCall'.op \in {"save", "saveFile"}
           /\ ModifiedChangedAt(signals') = {}
    /\ (lastCall'.op = "saveFile" /\ ~result'.ok) =>
           ModifiedChangedAt(signals') = {}

\* C19: modified-changed is emitted exactly when the flag goes from false
\* to true, so at most once between two saves; save() and a successful
\* save(filename), which set the flag back to false, emit none, and a
\* failing save(filename) emits none.
C19_ModifiedChangedOnRise == [][C19_Step]_vars

\* A setter has just changed a point of a Sequence that was already
\* modified: signals, but no modified-changed among them.
C19_Witness ==
    /\ isValid
    /\ m_isModified
    /\ lastCall.op \in PositionalSetters
    /\ signals # <<>>
    /\ ModifiedChangedAt(signals) = {}

\* What C20 says of one setCurPoint(p) call.
C20_Step ==
    (lastCall'.op = "setCurPoint") =>
        /\ UNCHANGED <<m_sequence, m_pointDim, m_min, m_max, m_isModified>>
        /\ \A i \in 1..Len(signals') : signals'[i] = curPointChanged

\* C20: setCurPoint(p) changes at most the cursor: for every p and every
\* state it leaves the list, pointDim, min, max and the modified flag
\* unchanged and emits no length-changed, point-values-changed or
\* modified-changed.
C20_SetCurPointOnlyCursor == [][C20_Step]_vars

\* setCurPoint(p) has just moved the cursor of an unmodified Sequence, which
\* is still unmodified.
C20_Witness ==
    /\ isValid
    /\ ~m_isModified
    /\ lastCall.op = "setCurPoint"
    /\ signals = <<curPointChanged>>
    /\ m_curPoint = lastCall.arg
    /\ m_curPoint >= 1

====
